---- MODULE Spec2Model ----
(***************************************************************************)
(* LLMService (packages/usellm/src/createLLMService.ts): the request       *)
(* dispatcher `handle`, the chat template merge `prepareChatBody`, and the *)
(* four upstream adapters chat, embed, transcribe and speak.               *)
(*                                                                         *)
(* JavaScript objects are functions from property names to values; a       *)
(* property whose value is undefined is a name outside the DOMAIN.         *)
(* Strings are TLA+ strings.  A prompt text is kept in parsed form, as a   *)
(* sequence of tokens (literal text or {{placeholder}}), and rendered to a *)
(* string by Render.  Numbers with a fraction are kept in tenths.          *)
(*                                                                         *)
(* VoiceChat (usellm.org/app/demo/voice-chat/page.tsx): the page's React   *)
(* state and the runs of its click handler.  Spec is the service with the  *)
(* page left as mounted; VoiceSpec is the page with the service left idle. *)
(***************************************************************************)
EXTENDS Integers, Sequences, FiniteSets, TLC

VARIABLES templates, openaiApiKey, elvenLabsApiKey, actions,
          pc, call, trace, outcome,
          status, audioUrl, history, runs

\* the service
service == <<templates, openaiApiKey, elvenLabsApiKey, actions,
             pc, call, trace, outcome>>

\* the voice-chat page
page == <<status, audioUrl, history, runs>>

vars == <<templates, openaiApiKey, elvenLabsApiKey, actions,
          pc, call, trace, outcome,
          status, audioUrl, history, runs>>

config == <<openaiApiKey, elvenLabsApiKey, actions>>

-----------------------------------------------------------------------------
(* Bounds *)

\* longest explicit message list a request carries
MaxMessages == 2

-----------------------------------------------------------------------------
(* Objects *)

EmptyObj == [k \in {} |-> TRUE]

Prop(k, v) == [x \in {k} |-> v]

\* object spread { ...a, ...b }
Spread(a, b) ==
  [k \in (DOMAIN a) \cup (DOMAIN b) |-> IF k \in DOMAIN b THEN b[k] ELSE a[k]]

\* the properties of o named in keys (the others are undefined)
Pick(o, keys) == [k \in (DOMAIN o) \cap keys |-> o[k]]

\* rest properties: const { $action, ...rest } = body
Omit(o, keys) == [k \in (DOMAIN o) \ keys |-> o[k]]

\* JavaScript truthiness of a string-valued property
TruthyStr(o, k) == k \in DOMAIN o /\ o[k] # ""

\* a set of optional properties: absent, or k with one of vals
Opt(k, vals) == {EmptyObj} \cup {Prop(k, v) : v \in vals}

-----------------------------------------------------------------------------
(* Prompt texts *)

Lit(s) == [kind |-> "lit", s |-> s]
Var(s) == [kind |-> "var", s |-> s]

RECURSIVE Render(_)
Render(toks) ==
  IF toks = <<>> THEN ""
  ELSE LET t == Head(toks)
       IN (IF t.kind = "lit" THEN t.s ELSE "{{" \o t.s \o "}}")
            \o Render(Tail(toks))

\* an input value is a string or a number
Str(s) == [str |-> s]
Num(n) == [num |-> n]

\* value.toString()
StringForm(v) == IF "num" \in DOMAIN v THEN ToString(v.num) ELSE v.str

\* fillPrompt(str, data): every {{k}} with k a key of data becomes the
\* string form of data[k]; the other placeholders stay as written
fillPrompt(toks, data) ==
  Render([i \in 1..Len(toks) |->
            IF toks[i].kind = "var" /\ toks[i].s \in DOMAIN data
            THEN Lit(StringForm(data[toks[i].s]))
            ELSE toks[i]])

\* makeErrorResponse(message, status)
makeErrorResponse(message, code) ==
  [kind |-> "error", message |-> message, status |-> code]

\* new Error(message): no status property
Error(message) == [kind |-> "error", message |-> message]

-----------------------------------------------------------------------------
(* Templates *)

defaultTemplate ==
  [model |-> "gpt-3.5-turbo", max_tokens |-> 200, temperature |-> 8]

GenerationParams ==
  {"model", "temperature", "top_p", "n", "max_tokens",
   "presence_penalty", "frequency_penalty", "logit_bias"}

TemplateIds == {"", "t1"}

\* prompts are stored parsed; the empty prompt is the empty string
TemplateDefs ==
  { [systemPrompt |-> <<Lit("You are "), Var("name")>>],
    [systemPrompt |-> <<Lit("Tutor")>>,
     userPrompt |-> <<Lit("Tell me about "), Var("topic")>>,
     model |-> "gpt-4", temperature |-> 7, max_tokens |-> 1000],
    [userPrompt |-> <<Var("name"), Lit(" asks: "), Var("q"), Lit(" / "), Var("name")>>,
     top_p |-> 5],
    [systemPrompt |-> <<>>, model |-> "gpt-4", n |-> 2] }

Templates == {Spread(Prop("id", id), d) : id \in TemplateIds, d \in TemplateDefs}

\* a prompt property is truthy when it is present and not the empty string
HasPrompt(t, k) == k \in DOMAIN t /\ t[k] # <<>>

-----------------------------------------------------------------------------
(* Upstream endpoints and payload conversions *)

CHAT_COMPLETIONS_API_URL == "CHAT_COMPLETIONS_API_URL"
EMBEDDINGS_API_URL == "EMBEDDINGS_API_URL"
AUDIO_TRANSCRIPTIONS_API_URL == "AUDIO_TRANSCRIPTIONS_API_URL"

getTextToSpeechApiUrl(voice_id) == "TEXT_TO_SPEECH_API_URL/" \o voice_id

dataURLToBlob(url) == "blob(" \o url \o ")"

\* FileReader.readAsDataURL(blob)
readAsDataURL(blob) == "data:" \o blob

\* JSON.stringify of an object with the one property k, whose value has the
\* JSON text json
JSONStringifyJson(k, json) == "{\"" \o k \o "\":" \o json \o "}"

\* JSON.stringify of an object with the one string property k
JSONStringify1(k, v) == "{\"" \o k \o "\":\"" \o v \o "\"}"

-----------------------------------------------------------------------------
(* One dispatch: the events it has produced and how it has ended *)

EvIsAllowed == [ev |-> "isAllowed"]
EvAnswer(allowed) == [ev |-> "answer", allowed |-> allowed]
EvHandler(name) == [ev |-> "handler", name |-> name]
EvFetch(url, key, body) == [ev |-> "fetch", url |-> url, key |-> key, body |-> body]

Pending == [kind |-> "pending"]
Result(r) == [kind |-> "result", result |-> r]

Range(s) == {s[i] : i \in 1..Len(s)}

Handlers(tr) == SelectSeq(tr, LAMBDA e : e.ev = "handler")
Fetches(tr) == SelectSeq(tr, LAMBDA e : e.ev = "fetch")

-----------------------------------------------------------------------------
(* prepareChatBody *)

\* this.templates[body.template || ""] || {}
LookupKey(body) == IF TruthyStr(body, "template") THEN body.template ELSE ""

\* mutant: an unknown id falls back to some registered template
Lookup_FallsBackToAny(tpls, key) ==
  IF key \in DOMAIN tpls THEN tpls[key]
  ELSE IF DOMAIN tpls # {} THEN tpls[CHOOSE k \in DOMAIN tpls : TRUE]
  ELSE EmptyObj

Lookup(tpls, key) == IF key \in DOMAIN tpls THEN tpls[key] ELSE EmptyObj

MergedTemplate(tpls, body) == Spread(defaultTemplate, Lookup(tpls, LookupKey(body)))

Inputs(body) == IF "inputs" \in DOMAIN body THEN body.inputs ELSE EmptyObj

\* mutant: the prompt is filled without the request's inputs
PromptMessage_NoInputs(template, k, role, body) ==
  IF HasPrompt(template, k)
  THEN <<[role |-> role, content |-> fillPrompt(template[k], EmptyObj)]>>
  ELSE <<>>

PromptMessage(template, k, role, body) ==
  IF HasPrompt(template, k)
  THEN <<[role |-> role, content |-> fillPrompt(template[k], Inputs(body))]>>
  ELSE <<>>

ExplicitMessages(body) ==
  IF "messages" \in DOMAIN body
  THEN [i \in 1..Len(body.messages) |->
          Pick(body.messages[i], {"role", "content", "user"})]
  ELSE <<>>

\* mutant: the request's messages come before the template's prompts
filledMessages_OwnFirst(tpls, body) ==
  LET template == MergedTemplate(tpls, body)
  IN ExplicitMessages(body)
       \o PromptMessage(template, "systemPrompt", "system", body)
       \o PromptMessage(template, "userPrompt", "user", body)

filledMessages(tpls, body) ==
  LET template == MergedTemplate(tpls, body)
  IN PromptMessage(template, "systemPrompt", "system", body)
       \o PromptMessage(template, "userPrompt", "user", body)
       \o ExplicitMessages(body)

\* mutant: generation parameters given in the request override the template's
prepareChatBody_RequestOverrides(tpls, body) ==
  LET template == MergedTemplate(tpls, body)
      msgs == filledMessages(tpls, body)
  IN IF Len(msgs) = 0
     THEN [threw |-> TRUE,
           error |-> makeErrorResponse(
             "Empty message list. Please provide at least one message!", 400)]
     ELSE [threw |-> FALSE,
           value |-> Spread(Spread(Prop("messages", msgs),
                                   Pick(body, {"stream", "user"})),
                            Spread(Pick(template, GenerationParams),
                                   Pick(body, GenerationParams)))]

\* mutant: an empty message list is not rejected
prepareChatBody_NoEmptyCheck(tpls, body) ==
  LET template == MergedTemplate(tpls, body)
      msgs == filledMessages(tpls, body)
  IN [threw |-> FALSE,
      value |-> Spread(Spread(Prop("messages", msgs),
                              Pick(body, {"stream", "user"})),
                       Pick(template, GenerationParams))]

prepareChatBody(tpls, body) ==
  LET template == MergedTemplate(tpls, body)
      msgs == filledMessages(tpls, body)
  IN IF Len(msgs) = 0
     THEN [threw |-> TRUE,
           error |-> makeErrorResponse(
             "Empty message list. Please provide at least one message!", 400)]
     ELSE [threw |-> FALSE,
           value |-> Spread(Spread(Prop("messages", msgs),
                                   Pick(body, {"stream", "user"})),
                            Pick(template, GenerationParams))]

-----------------------------------------------------------------------------
(* The handlers, up to their outbound call.  Each yields the events of the *)
(* synchronous part and the outcome so far: Pending while the transport    *)
(* call is awaited, an error when the handler threw before it.             *)

Step(events, out) == [events |-> events, outcome |-> out]

\* mutant: the chat completion request is sent a second time
chat_FetchesTwice(body) ==
  LET preparedBody == prepareChatBody(templates, body)
  IN IF preparedBody.threw
     THEN Step(<<EvHandler("chat")>>, preparedBody.error)
     ELSE Step(<<EvHandler("chat"),
                 EvFetch(CHAT_COMPLETIONS_API_URL, openaiApiKey,
                         preparedBody.value),
                 EvFetch(CHAT_COMPLETIONS_API_URL, openaiApiKey,
                         preparedBody.value)>>, Pending)

chat(body) ==
  LET preparedBody == prepareChatBody(templates, body)
  IN IF preparedBody.threw
     THEN Step(<<EvHandler("chat")>>, preparedBody.error)
     ELSE Step(<<EvHandler("chat"),
                 EvFetch(CHAT_COMPLETIONS_API_URL, openaiApiKey,
                         preparedBody.value)>>, Pending)

\* mutant: a model given in the request is sent upstream
embed_RequestModel(options) ==
  Step(<<EvHandler("embed"),
         EvFetch(EMBEDDINGS_API_URL, openaiApiKey,
                 Spread(Prop("model", "text-embedding-ada-002"),
                        Pick(options, {"input", "user", "model"})))>>, Pending)

embed(options) ==
  Step(<<EvHandler("embed"),
         EvFetch(EMBEDDINGS_API_URL, openaiApiKey,
                 Spread(Pick(options, {"input", "user"}),
                        Prop("model", "text-embedding-ada-002")))>>, Pending)

\* mutant: only an absent audioUrl is rejected, an empty one is sent
transcribe_EmptyUrlPasses(options) ==
  IF "audioUrl" \notin DOMAIN options
  THEN Step(<<EvHandler("transcribe")>>,
            makeErrorResponse("'audioUrl' is required", 400))
  ELSE LET formData ==
             Spread([file |-> dataURLToBlob(options.audioUrl),
                     filename |-> "recording.wav", model |-> "whisper-1"],
                    Spread(IF TruthyStr(options, "language")
                           THEN Prop("language", options.language) ELSE EmptyObj,
                           IF TruthyStr(options, "prompt")
                           THEN Prop("prompt", options.prompt) ELSE EmptyObj))
       IN Step(<<EvHandler("transcribe"),
                 EvFetch(AUDIO_TRANSCRIPTIONS_API_URL, openaiApiKey, formData)>>,
               Pending)

transcribe(options) ==
  IF ~TruthyStr(options, "audioUrl")
  THEN Step(<<EvHandler("transcribe")>>,
            makeErrorResponse("'audioUrl' is required", 400))
  ELSE LET formData ==
             Spread([file |-> dataURLToBlob(options.audioUrl),
                     filename |-> "recording.wav", model |-> "whisper-1"],
                    Spread(IF TruthyStr(options, "language")
                           THEN Prop("language", options.language) ELSE EmptyObj,
                           IF TruthyStr(options, "prompt")
                           THEN Prop("prompt", options.prompt) ELSE EmptyObj))
       IN Step(<<EvHandler("transcribe"),
                 EvFetch(AUDIO_TRANSCRIPTIONS_API_URL, openaiApiKey, formData)>>,
               Pending)

\* mutant: the endpoint is always that of the default voice
speak_DefaultVoiceEndpoint(options) ==
  LET model_id == IF "model_id" \in DOMAIN options
                  THEN options.model_id ELSE "eleven_monolingual_v1"
  IN Step(<<EvHandler("speak"),
            EvFetch(getTextToSpeechApiUrl("21m00Tcm4TlvDq8ikWAM"), elvenLabsApiKey,
                    Spread(Pick(options, {"text", "voice_settings"}),
                           Prop("model_id", model_id)))>>, Pending)

speak(options) ==
  LET model_id == IF "model_id" \in DOMAIN options
                  THEN options.model_id ELSE "eleven_monolingual_v1"
      voice_id == IF "voice_id" \in DOMAIN options
                  THEN options.voice_id ELSE "21m00Tcm4TlvDq8ikWAM"
  IN Step(<<EvHandler("speak"),
            EvFetch(getTextToSpeechApiUrl(voice_id), elvenLabsApiKey,
                    Spread(Pick(options, {"text", "voice_settings"}),
                           Prop("model_id", model_id)))>>, Pending)

NoStep(err) == Step(<<>>, err)

NotSupported(action) ==
  makeErrorResponse("Action \"" \o action \o "\" is not supported", 400)

\* mutant: an action without a handler is served by chat
route_FallsBackToChat(action, rest) ==
  IF action = "transcribe" THEN transcribe(rest)
  ELSE IF action = "embed" THEN embed(rest)
  ELSE IF action = "speak" THEN speak(rest)
  ELSE chat(rest)

\* handle, lines 193-206: the handler named by $action, or unsupported
route(action, rest) ==
  IF action = "chat" THEN chat(rest)
  ELSE IF action = "transcribe" THEN transcribe(rest)
  ELSE IF action = "embed" THEN embed(rest)
  ELSE IF action = "speak" THEN speak(rest)
  ELSE NoStep(NotSupported(action))

\* mutant: the allow-list is not consulted
checkActions_NoAllowList(body) ==
  route(body["$action"], Omit(body, {"$action"}))

\* handle, lines 187-191: the configured allow-list
checkActions(body) ==
  LET action == body["$action"]
      rest == Omit(body, {"$action"})
  IN IF Len(actions) > 0 /\ action \notin Range(actions)
     THEN NoStep(NotSupported(action))
     ELSE route(action, rest)

\* mutant: a body without $action is taken for a chat
checkActionKey_DefaultsToChat(body) ==
  IF "$action" \notin DOMAIN body THEN chat(body) ELSE checkActions(body)

\* handle, lines 181-186: the body carries $action
checkActionKey(body) ==
  IF "$action" \notin DOMAIN body
  THEN NoStep(makeErrorResponse("handle expects a key $action in the body", 400))
  ELSE checkActions(body)

\* mutant: the OpenAI key is not required
checkApiKey_Skipped(body) == checkActionKey(body)

\* handle, lines 178-180: the OpenAI key is configured
checkApiKey(body) ==
  IF openaiApiKey = ""
  THEN NoStep(makeErrorResponse("OpenAI API key is required.", 400))
  ELSE checkActionKey(body)

\* mutant: the OpenAI key is tested before the answer of isAllowed
handle_KeyFirst(body, allowed) ==
  IF openaiApiKey = ""
  THEN NoStep(makeErrorResponse("OpenAI API key is required.", 400))
  ELSE IF ~allowed
  THEN NoStep(makeErrorResponse("Request not allowed", 405))
  ELSE checkActionKey(body)

\* mutant: the answer of isAllowed is ignored
handle_IgnoresVeto(body, allowed) == checkApiKey(body)

\* handle, from the point where the awaited isAllowed has answered
handle(body, allowed) ==
  IF ~allowed
  THEN NoStep(makeErrorResponse("Request not allowed", 405))
  ELSE checkApiKey(body)

\* the handler that awaits the transport
Awaiting(tr) == Handlers(tr)[Len(Handlers(tr))].name

Streaming(tr) ==
  LET b == Fetches(tr)[Len(Fetches(tr))].body
  IN Awaiting(tr) = "chat" /\ "stream" \in DOMAIN b /\ b.stream = TRUE

\* mutant: an upstream failure is turned into an error with the HTTP status
resume_NormalizesStatus(tr, response) ==
  IF ~response.ok THEN makeErrorResponse(response.text, response.status)
  ELSE IF Streaming(tr) THEN Result("ReadableStream")
  ELSE IF Awaiting(tr) = "embed"
  THEN Result(JSONStringifyJson("embeddings", response.data))
  ELSE IF Awaiting(tr) = "speak"
  THEN Result(JSONStringify1("audioUrl", readAsDataURL(response.blob)))
  ELSE Result(response.text)

\* the handlers, from the point where the transport has answered
resume(tr, response) ==
  IF Streaming(tr)
  THEN IF response.ok THEN Result("ReadableStream") ELSE Error(response.text)
  ELSE IF ~response.ok THEN Error(response.text)
  ELSE IF Awaiting(tr) = "embed"
  THEN Result(JSONStringifyJson("embeddings", response.data))
  ELSE IF Awaiting(tr) = "speak"
  THEN Result(JSONStringify1("audioUrl", readAsDataURL(response.blob)))
  ELSE Result(response.text)

-----------------------------------------------------------------------------
(* Inputs *)

MessageValues ==
  { [role |-> "user", content |-> "Hi {{name}}"],
    [role |-> "assistant", content |-> "Hello", user |-> "u1"] }

MessageLists == UNION {[1..n -> MessageValues] : n \in 0..MaxMessages}

InputMaps == { [name |-> Str("Bot"), topic |-> Num(5)] }

\* the end user's id, and fields that are not chat options (handle takes
\* any object as the body)
ExtraFields ==
  [user |-> "u9", model |-> "gpt-4-32k", temperature |-> 20,
   max_tokens |-> 4000, n |-> 9]

ChatBodies ==
  { Spread(Spread(t, m), Spread(i, s)) :
      t \in Opt("template", {"t1", "zz"}),
      m \in Opt("messages", MessageLists),
      i \in Opt("inputs", InputMaps),
      s \in Opt("stream", {TRUE}) }
  \cup
  { Spread(Spread(t, s),
           Spread([messages |-> <<[role |-> "user", content |-> "Hi {{name}}"]>>],
                  ExtraFields)) :
      t \in Opt("template", {"t1", "zz"}),
      s \in Opt("stream", {TRUE}) }

EmbedBodies ==
  { EmptyObj, [input |-> "hi"],
    [input |-> "hi", user |-> "u1", model |-> "text-embedding-3-large"] }

TranscribeBodies ==
  { EmptyObj, [audioUrl |-> ""], [audioUrl |-> "data:audio/wav;base64,AAAA"],
    [audioUrl |-> "data:audio/wav;base64,AAAA", language |-> "en"],
    [audioUrl |-> "data:audio/wav;base64,AAAA", language |-> "en", prompt |-> "names"] }

SpeakBodies ==
  { [text |-> "hello"],
    [text |-> "hello", model_id |-> "eleven_multilingual_v1", voice_id |-> "voice2"],
    [text |-> "hello", voice_id |-> "voice2",
     voice_settings |-> [stability |-> 8, similarity_boost |-> 5]] }

Tagged(action, bodies) == {Spread(Prop("$action", action), b) : b \in bodies}

HandleBodies ==
  Tagged("chat", ChatBodies) \cup Tagged("embed", EmbedBodies)
    \cup Tagged("transcribe", TranscribeBodies) \cup Tagged("speak", SpeakBodies)
    \cup Tagged("complete", {[input |-> "hi"]})
    \cup {EmptyObj, [input |-> "hi"], [text |-> "hello"]}

ActionLists ==
  { <<>>, <<"chat">>, <<"chat", "transcribe", "speak">>, <<"embed", "complete">> }

Responses ==
  { [ok |-> TRUE, status |-> 200, text |-> "upstream body",
     data |-> "[0.1,0.2]", blob |-> "audio/mpeg;base64,SUQz"],
    [ok |-> FALSE, status |-> 401, text |-> "invalid api key",
     data |-> "", blob |-> ""] }

NoCall == [entry |-> "none"]

-----------------------------------------------------------------------------
(* Actions *)

\* useState<string | null>(null)
null == "null"

\* the history the page starts with: the system message
InitialHistory == <<[role |-> "system", content |-> "You're a voice chatbot"]>>

\* VoiceChat as first rendered: no click yet, no run of handleClick
Mounted ==
  /\ status = "idle"
  /\ audioUrl = null
  /\ history = InitialHistory
  /\ runs = <<>>

\* new LLMService(options)
Init ==
  /\ Mounted
  /\ templates \in {EmptyObj} \cup {Prop(t.id, t) : t \in {x \in Templates : x.id = "t1"}}
  /\ openaiApiKey \in {"", "sk-1"}
  /\ elvenLabsApiKey \in {"", "xi-1"}
  /\ actions \in ActionLists
  /\ pc = "idle"
  /\ call = NoCall
  /\ trace = <<>>
  /\ outcome = Pending

\* mutant: a registration replaces the whole mapping
registerTemplate_ReplacesAll(tpls, template) == Prop(template.id, template)

\* mutant: a second registration under an id is merged over the first
registerTemplate_Merges(tpls, template) ==
  Spread(tpls, Prop(template.id,
                    IF template.id \in DOMAIN tpls
                    THEN Spread(tpls[template.id], template) ELSE template))

registerTemplate(tpls, template) == Spread(tpls, Prop(template.id, template))

RegisterTemplate(template) ==
  /\ pc # "done"
  /\ templates' = registerTemplate(templates, template)
  /\ UNCHANGED <<config, pc, call, trace, outcome>>
  /\ UNCHANGED page

\* a call that runs up to its first await of the transport, or throws
Enter(entry, body, step) ==
  /\ pc = "idle"
  /\ call' = [entry |-> entry, body |-> body]
  /\ trace' = step.events
  /\ outcome' = step.outcome
  /\ pc' = IF step.outcome = Pending THEN "fetch" ELSE "done"
  /\ UNCHANGED <<templates, config>>
  /\ UNCHANGED page

\* handle({ body }) up to the await of isAllowed
CallHandle(body) ==
  /\ pc = "idle"
  /\ call' = [entry |-> "handle", body |-> body]
  /\ trace' = <<EvIsAllowed>>
  /\ outcome' = Pending
  /\ pc' = "isAllowed"
  /\ UNCHANGED <<templates, config>>
  /\ UNCHANGED page

\* isAllowed answers; handle runs on to the await of the transport, or throws
HandleResume(allowed) ==
  /\ pc = "isAllowed"
  /\ LET step == handle(call.body, allowed)
     IN /\ trace' = trace \o <<EvAnswer(allowed)>> \o step.events
        /\ outcome' = step.outcome
        /\ pc' = IF step.outcome = Pending THEN "fetch" ELSE "done"
  /\ UNCHANGED <<templates, config, call>>
  /\ UNCHANGED page

CallChat(body) == Enter("chat", body, chat(body))

CallEmbed(options) == Enter("embed", options, embed(options))

CallTranscribe(options) == Enter("transcribe", options, transcribe(options))

CallSpeak(options) == Enter("speak", options, speak(options))

CallPrepareChatBody(body) ==
  LET preparedBody == prepareChatBody(templates, body)
  IN Enter("prepareChatBody", body,
           Step(<<>>, IF preparedBody.threw THEN preparedBody.error
                      ELSE [kind |-> "prepared", value |-> preparedBody.value]))

\* the transport answers with an HTTP response
FetchResponds(response) ==
  /\ pc = "fetch"
  /\ outcome' = resume(trace, response)
  /\ pc' = "done"
  /\ UNCHANGED <<templates, config, call, trace>>
  /\ UNCHANGED page

\* the transport rejects
FetchRejects ==
  /\ pc = "fetch"
  /\ outcome' = Error("fetch failed")
  /\ pc' = "done"
  /\ UNCHANGED <<templates, config, call, trace>>
  /\ UNCHANGED page

\* the caller has its result or its error; the service is ready for the next call
Return ==
  /\ pc = "done"
  /\ pc' = "idle"
  /\ call' = NoCall
  /\ trace' = <<>>
  /\ outcome' = Pending
  /\ UNCHANGED <<templates, config>>
  /\ UNCHANGED page

Next ==
  \/ \E template \in Templates : RegisterTemplate(template)
  \/ \E body \in HandleBodies : CallHandle(body)
  \/ \E allowed \in BOOLEAN : HandleResume(allowed)
  \/ \E body \in ChatBodies : CallChat(body)
  \/ \E options \in EmbedBodies : CallEmbed(options)
  \/ \E options \in TranscribeBodies : CallTranscribe(options)
  \/ \E options \in SpeakBodies : CallSpeak(options)
  \/ \E body \in ChatBodies : CallPrepareChatBody(body)
  \/ \E response \in Responses : FetchResponds(response)
  \/ FetchRejects
  \/ Return

Spec == Init /\ [][Next]_vars

-----------------------------------------------------------------------------
(* Observations of a dispatch *)

\* a handle call whose isAllowed has answered
Answered == call.entry = "handle" /\ pc \in {"fetch", "done"}

Authorized == Answered /\ trace[2].allowed
Vetoed == Answered /\ ~trace[2].allowed

HasAction == "$action" \in DOMAIN call.body

\* the call has been rejected with an error carrying this status
Rejected(code) ==
  /\ pc = "done"
  /\ outcome.kind = "error"
  /\ "status" \in DOMAIN outcome
  /\ outcome.status = code

NoHandler == Handlers(trace) = <<>>
NoFetch == Fetches(trace) = <<>>

HandlerNames == {"chat", "transcribe", "embed", "speak"}

\* the configured allow-list lets this action through
Listed(action) == Len(actions) = 0 \/ action \in Range(actions)

-----------------------------------------------------------------------------
(* Claims about handle *)

\* C1: when isAllowed answers false, handle rejects with status 405, no
\* handler is invoked and the transport is not called.
C1_VetoRejects405 ==
  Vetoed => Rejected(405) /\ NoHandler /\ NoFetch

\* a vetoed chat dispatch that would otherwise have reached the chat handler
C1_Witness ==
  /\ Vetoed /\ pc = "done"
  /\ openaiApiKey # "" /\ HasAction /\ call.body["$action"] = "chat"
  /\ Listed("chat") /\ "messages" \in DOMAIN call.body
  /\ outcome.status = 405

\* C2 as stated: every dispatch through handle whose $action is outside a
\* non-empty allow-list fails with status 400, before any handler and
\* without a transport call.
C2_Original ==
  (Answered /\ Len(actions) > 0
     /\ (HasAction => call.body["$action"] \notin Range(actions)))
  => Rejected(400) /\ NoHandler /\ NoFetch

\* C2 amended: every dispatch through handle that isAllowed lets through and
\* whose $action is outside a non-empty allow-list fails with status 400,
\* before any handler and without a transport call, also when $action names
\* one of the four handlers.
C2_UnlistedRejects400 ==
  (Authorized /\ Len(actions) > 0
     /\ (HasAction => call.body["$action"] \notin Range(actions)))
  => Rejected(400) /\ NoHandler /\ NoFetch

\* allow-list ["chat"], body {$action: "embed", input: "hi"}
C2_Witness ==
  /\ Authorized /\ pc = "done" /\ openaiApiKey # ""
  /\ actions = <<"chat">>
  /\ call.body = [input |-> "hi"] @@ Prop("$action", "embed")
  /\ outcome = NotSupported("embed")
  /\ NoFetch

\* C3: a credential is needed only by the actions that use it: an authorized,
\* listed speak dispatch reaches the speak handler whether or not the OpenAI
\* key is configured, and chat, embed and transcribe dispatches reach their
\* handler whether or not the speech key is configured.
C3_KeyOnlyWhereUsed ==
  (Authorized /\ HasAction /\ Listed(call.body["$action"]))
  => /\ (call.body["$action"] = "speak" /\ elvenLabsApiKey # "")
          => Handlers(trace) = <<EvHandler("speak")>>
     /\ (call.body["$action"] \in {"chat", "embed", "transcribe"}
           /\ openaiApiKey # "")
          => Handlers(trace) = <<EvHandler(call.body["$action"])>>

\* C4: without an OpenAI key, every authorized dispatch is rejected with the
\* 400 configuration error and the transport is not called.
C4_NoKeyRejects400 ==
  (Authorized /\ openaiApiKey = "")
  => /\ Rejected(400)
     /\ outcome.message = "OpenAI API key is required."
     /\ NoHandler /\ NoFetch

\* a speak dispatch with the speech key but no OpenAI key
C4_Witness ==
  /\ Authorized /\ pc = "done" /\ openaiApiKey = "" /\ elvenLabsApiKey # ""
  /\ HasAction /\ call.body["$action"] = "speak" /\ Listed("speak")
  /\ outcome.status = 400

\* C5: an authorized dispatch with a configured key whose body has no
\* $action key is rejected with status 400 and no handler is invoked.
C5_NoActionRejects400 ==
  (Authorized /\ openaiApiKey # "" /\ ~HasAction)
  => /\ Rejected(400)
     /\ outcome.message = "handle expects a key $action in the body"
     /\ NoHandler /\ NoFetch

\* a body that would be a valid embed payload but carries no $action
C5_Witness ==
  /\ Authorized /\ pc = "done" /\ openaiApiKey # ""
  /\ call.body = [input |-> "hi"]
  /\ outcome.status = 400

\* C6: a dispatch that passes the authorization, key, $action and allow-list
\* checks invokes exactly one handler, the one $action names, when $action
\* is chat, transcribe, embed or speak; for any other $action, listed or
\* not, no handler is invoked and handle rejects with the 400
\* unsupported-action error.
C6_RoutesToExactlyOne ==
  (Authorized /\ openaiApiKey # "" /\ HasAction /\ Listed(call.body["$action"]))
  => IF call.body["$action"] \in HandlerNames
     THEN Handlers(trace) = <<EvHandler(call.body["$action"])>>
     ELSE /\ NoHandler /\ NoFetch
          /\ Rejected(400)
          /\ outcome = NotSupported(call.body["$action"])

\* an action the allow-list contains but no handler serves
C6_Witness ==
  /\ Authorized /\ pc = "done" /\ openaiApiKey # ""
  /\ HasAction /\ call.body["$action"] = "complete"
  /\ "complete" \in Range(actions)
  /\ outcome.status = 400

\* a listed transcribe dispatch that reached its handler
C6_WitnessRouted ==
  /\ Authorized /\ pc = "fetch"
  /\ HasAction /\ call.body["$action"] = "transcribe"
  /\ Handlers(trace) = <<EvHandler("transcribe")>>

-----------------------------------------------------------------------------
(* Observations of the step in which a chat body is prepared *)

\* the chat options a call carries
ChatOptions(c) == IF c.entry = "handle" THEN Omit(c.body, {"$action"}) ELSE c.body

\* this step runs prepareChatBody: a direct call of prepareChatBody or chat,
\* or a handle call resuming into the chat handler
Prepares ==
  \/ pc = "idle" /\ pc' # "idle" /\ call'.entry \in {"chat", "prepareChatBody"}
  \/ pc = "isAllowed" /\ pc' # "isAllowed" /\ Handlers(trace') = <<EvHandler("chat")>>

\* this step prepares a body for the upstream
PreparesUpstream == Prepares /\ call'.entry # "prepareChatBody"

\* the step ended with prepareChatBody throwing
Threw(out) == out.kind = "error"

\* the prepared body: returned to the caller, or handed to the transport
PreparedBody(c, tr, out) ==
  IF c.entry = "prepareChatBody" THEN out.value ELSE Fetches(tr)[1].body

\* the template id the request asks for (none asks for "")
RequestedId(b) == IF "template" \in DOMAIN b THEN b.template ELSE ""

RequestMessages(b) == IF "messages" \in DOMAIN b THEN b.messages ELSE <<>>

EmptyMessageList ==
  [kind |-> "error", status |-> 400,
   message |-> "Empty message list. Please provide at least one message!"]

-----------------------------------------------------------------------------
(* Claims about prepareChatBody *)

\* C7: when the requested template id is not registered, preparing the body
\* does not fail on the lookup: the prepared body carries exactly the
\* default model, max_tokens and temperature, no other generation
\* parameter, and the request's own messages only; it fails only when the
\* request has no message, with the empty-message-list error.
C7_UnknownTemplateGivesDefaults ==
  [][ (Prepares /\ RequestedId(ChatOptions(call')) \notin DOMAIN templates)
      => LET b == ChatOptions(call')
         IN IF RequestMessages(b) = <<>>
            THEN outcome' = EmptyMessageList
            ELSE /\ ~Threw(outcome')
                 /\ Pick(PreparedBody(call', trace', outcome'), GenerationParams)
                      = [model |-> "gpt-3.5-turbo", max_tokens |-> 200,
                         temperature |-> 8]
                 /\ PreparedBody(call', trace', outcome').messages = b.messages
    ]_vars

\* template "zz" is asked for while "" and "t1" are registered
C7_Witness ==
  /\ pc = "done" /\ call.entry = "prepareChatBody"
  /\ DOMAIN templates = {"", "t1"}
  /\ RequestedId(call.body) = "zz"
  /\ outcome.kind = "prepared"
  /\ outcome.value.model = "gpt-3.5-turbo"
  /\ Len(outcome.value.messages) = 2

\* C8: a chat request with messages and no template field is sent upstream
\* with the default model, max_tokens and temperature and with exactly the
\* request's messages, whatever templates are registered.
C8_NoTemplateFieldGivesDefaults ==
  [][ (PreparesUpstream /\ "template" \notin DOMAIN ChatOptions(call')
         /\ RequestMessages(ChatOptions(call')) # <<>>)
      => /\ pc' = "fetch"
         /\ Pick(PreparedBody(call', trace', outcome'), GenerationParams)
              = [model |-> "gpt-3.5-turbo", max_tokens |-> 200, temperature |-> 8]
         /\ PreparedBody(call', trace', outcome').messages
              = RequestMessages(ChatOptions(call'))
    ]_vars

\* C9: the prepared messages are the template's filled system prompt as one
\* system message when the template has one, then its filled user prompt as
\* one user message when it has one, then the request's messages in their
\* order, copied as they are; a template with the only prompt
\* "You are {{name}}" and inputs {name: "Bot"} give the one system message
\* "You are Bot".
C9_MessageOrder ==
  [][ (Prepares /\ ~Threw(outcome'))
      => LET b == ChatOptions(call')
             id == RequestedId(b)
             t == IF id \in DOMAIN templates THEN templates[id] ELSE EmptyObj
             inputs == IF "inputs" \in DOMAIN b THEN b.inputs ELSE EmptyObj
             hasSys == "systemPrompt" \in DOMAIN t /\ t.systemPrompt # <<>>
             hasUser == "userPrompt" \in DOMAIN t /\ t.userPrompt # <<>>
             nSys == IF hasSys THEN 1 ELSE 0
             nUser == IF hasUser THEN 1 ELSE 0
             own == RequestMessages(b)
             msgs == PreparedBody(call', trace', outcome').messages
         IN /\ Len(msgs) = nSys + nUser + Len(own)
            /\ hasSys => msgs[1] = [role |-> "system",
                                    content |-> fillPrompt(t.systemPrompt, inputs)]
            /\ hasUser => msgs[nSys + 1] = [role |-> "user",
                                            content |-> fillPrompt(t.userPrompt, inputs)]
            /\ \A i \in 1..Len(own) : msgs[nSys + nUser + i] = own[i]
            /\ (/\ Pick(t, {"systemPrompt", "userPrompt"})
                     = [systemPrompt |-> <<Lit("You are "), Var("name")>>]
                /\ "name" \in DOMAIN inputs /\ inputs.name = Str("Bot")
                /\ own = <<>>)
               => msgs = <<[role |-> "system", content |-> "You are Bot"]>>
    ]_vars

\* template t1 with the only prompt "You are {{name}}", no explicit message
C9_Witness ==
  /\ pc = "done" /\ call.entry = "prepareChatBody"
  /\ "t1" \in DOMAIN templates
  /\ templates["t1"] = [id |-> "t1", systemPrompt |-> <<Lit("You are "), Var("name")>>]
  /\ call.body = [template |-> "t1", inputs |-> [name |-> Str("Bot"), topic |-> Num(5)]]
  /\ outcome.kind = "prepared"
  /\ outcome.value.messages = <<[role |-> "system", content |-> "You are Bot"]>>

\* both prompts and two explicit messages
C9_WitnessAll ==
  /\ pc = "fetch" /\ call.entry = "chat"
  /\ Len(RequestMessages(call.body)) = 2
  /\ Len(Fetches(trace)[1].body.messages) = 4
  /\ Fetches(trace)[1].body.messages[2]
       = [role |-> "user", content |-> "Tell me about 5"]

\* the request brings no message and the template it resolves to no prompt
NoMessageSource(b) ==
  /\ RequestMessages(b) = <<>>
  /\ LET id == RequestedId(b)
         t == IF id \in DOMAIN templates THEN templates[id] ELSE EmptyObj
     IN /\ ~("systemPrompt" \in DOMAIN t /\ t.systemPrompt # <<>>)
        /\ ~("userPrompt" \in DOMAIN t /\ t.userPrompt # <<>>)

\* C10: a chat request without explicit messages whose template has neither
\* a system prompt nor a user prompt fails with the 400 validation error
\* when it reaches the chat handler, and the transport is not called in
\* that dispatch; dispatched through handle it is rejected, by this error
\* or by an earlier check, without a transport call.
C10_EmptyMessagesRejected ==
  [][ /\ (Prepares /\ NoMessageSource(ChatOptions(call')))
         => /\ pc' = "done"
            /\ outcome' = EmptyMessageList
            /\ Fetches(trace') = <<>>
      /\ (/\ pc = "isAllowed" /\ pc' # "isAllowed"
          /\ HasAction /\ call.body["$action"] = "chat"
          /\ NoMessageSource(ChatOptions(call)))
         => /\ pc' = "done"
            /\ Threw(outcome')
            /\ Fetches(trace') = <<>>
    ]_vars

\* a dispatched chat naming a registered template without prompts, with an
\* empty message list
C10_Witness ==
  /\ Authorized /\ pc = "done"
  /\ HasAction /\ call.body["$action"] = "chat"
  /\ "t1" \in DOMAIN templates /\ RequestedId(call.body) = "t1"
  /\ "messages" \in DOMAIN call.body /\ call.body.messages = <<>>
  /\ Handlers(trace) = <<EvHandler("chat")>>
  /\ outcome = EmptyMessageList
  /\ NoFetch

-----------------------------------------------------------------------------
(* Claims about prompt interpolation and the template registry *)

\* the text a prompt becomes under an inputs map, piece by piece: literal
\* text as it is, {{k}} with k in the map as the string form of its value,
\* any other {{k}} as written
RECURSIVE Interpolated(_, _)
Interpolated(toks, data) ==
  IF toks = <<>> THEN ""
  ELSE LET t == Head(toks)
           piece == IF t.kind = "lit" THEN t.s
                    ELSE IF t.s \notin DOMAIN data THEN "{{" \o t.s \o "}}"
                    ELSE IF "num" \in DOMAIN data[t.s]
                         THEN ToString(data[t.s].num)
                         ELSE data[t.s].str
       IN piece \o Interpolated(Tail(toks), data)

\* C11: in a prepared prompt message every {{k}} whose key is in the inputs
\* map is replaced, at each occurrence, by the string form of its value;
\* every {{k}} whose key is absent stays as written and raises no error;
\* the text outside placeholders is unchanged; the registered template is
\* not modified.
C11_Interpolation ==
  [][ (Prepares /\ ~Threw(outcome'))
      => LET b == ChatOptions(call')
             id == RequestedId(b)
             t == IF id \in DOMAIN templates THEN templates[id] ELSE EmptyObj
             inputs == IF "inputs" \in DOMAIN b THEN b.inputs ELSE EmptyObj
             hasSys == "systemPrompt" \in DOMAIN t /\ t.systemPrompt # <<>>
             hasUser == "userPrompt" \in DOMAIN t /\ t.userPrompt # <<>>
             iUser == IF hasSys THEN 2 ELSE 1
             msgs == PreparedBody(call', trace', outcome').messages
         IN /\ hasSys => msgs[1].content = Interpolated(t.systemPrompt, inputs)
            /\ hasUser => msgs[iUser].content = Interpolated(t.userPrompt, inputs)
            /\ (hasUser /\ inputs = [name |-> Str("Bot"), topic |-> Num(5)])
               => /\ t.userPrompt = <<Var("name"), Lit(" asks: "), Var("q"),
                                      Lit(" / "), Var("name")>>
                       => msgs[iUser].content = "Bot asks: {{q}} / Bot"
                  /\ t.userPrompt = <<Lit("Tell me about "), Var("topic")>>
                       => msgs[iUser].content = "Tell me about 5"
            /\ (hasSys /\ inputs = EmptyObj
                  /\ t.systemPrompt = <<Lit("You are "), Var("name")>>)
               => msgs[1].content = "You are {{name}}"
            /\ templates' = templates
    ]_vars

\* a prompt with a key twice and an absent key, filled from the inputs
C11_Witness ==
  /\ pc = "done" /\ call.entry = "prepareChatBody"
  /\ RequestedId(call.body) = "t1" /\ "t1" \in DOMAIN templates
  /\ "userPrompt" \in DOMAIN templates["t1"]
  /\ templates["t1"].userPrompt
       = <<Var("name"), Lit(" asks: "), Var("q"), Lit(" / "), Var("name")>>
  /\ "inputs" \in DOMAIN call.body
  /\ outcome.kind = "prepared"
  /\ outcome.value.messages[1].content = "Bot asks: {{q}} / Bot"

\* C12: a registration under an id replaces the definition stored under
\* that id by the given one as a whole, so a lookup returns the most recent
\* registration; a chat request naming the id is prepared from the stored
\* definition alone: its generation parameters are that definition's over
\* the defaults and its prompts are that definition's.
C12_LastWriteWins ==
  [][ /\ \A t \in Templates : RegisterTemplate(t) => templates'[t.id] = t
      /\ (Prepares /\ ~Threw(outcome')
            /\ RequestedId(ChatOptions(call')) \in DOMAIN templates)
         => LET b == ChatOptions(call')
                d == templates[RequestedId(b)]
                nSys == IF "systemPrompt" \in DOMAIN d /\ d.systemPrompt # <<>>
                        THEN 1 ELSE 0
                nUser == IF "userPrompt" \in DOMAIN d /\ d.userPrompt # <<>>
                         THEN 1 ELSE 0
                prepared == PreparedBody(call', trace', outcome')
            IN /\ Pick(prepared, GenerationParams)
                    = Spread([model |-> "gpt-3.5-turbo", max_tokens |-> 200,
                              temperature |-> 8],
                             Pick(d, GenerationParams))
               /\ Len(prepared.messages) = nSys + nUser + Len(RequestMessages(b))
    ]_vars

\* a chat was prepared from the definition of t1 with the "Tutor" prompt,
\* and t1 has since been registered again with a definition without prompts
C12_Witness ==
  /\ pc = "fetch" /\ call.entry = "chat"
  /\ RequestedId(call.body) = "t1"
  /\ Fetches(trace)[1].body.messages[1] = [role |-> "system", content |-> "Tutor"]
  /\ "t1" \in DOMAIN templates
  /\ templates["t1"] = [id |-> "t1", systemPrompt |-> <<>>, model |-> "gpt-4", n |-> 2]

-----------------------------------------------------------------------------
(* Claims about the upstream adapters *)

\* the options the running handler was called with
Options(c) == ChatOptions(c)

\* the running call has reached this handler
Reached(name) ==
  pc \in {"fetch", "done"} /\ Handlers(trace) # <<>> /\ Awaiting(trace) = name

\* the object a fulfilled call resolves to
Resolved(out) == Omit(out, {"kind"})

\* C13: when the upstream answers a non-streaming chat, embed, transcribe
\* or speak call with a non-success status, the call is rejected with an
\* error whose message is the response text and which carries no status,
\* and nothing is returned.
C13_UpstreamErrorText ==
  [][ \A r \in Responses :
        (FetchResponds(r) /\ ~r.ok /\ ~Streaming(trace))
        => /\ pc' = "done"
           /\ outcome' = [kind |-> "error", message |-> r.text]
           /\ "status" \notin DOMAIN outcome'
    ]_vars

\* a dispatched non-streaming chat answered with 401 "invalid api key"
C13_Witness ==
  /\ Authorized /\ pc = "done"
  /\ Handlers(trace) = <<EvHandler("chat")>>
  /\ "stream" \notin DOMAIN call.body
  /\ outcome = [kind |-> "error", message |-> "invalid api key"]

\* C14: speak sends the default model id when the request has no model_id
\* and calls the endpoint of the default voice when it has no voice_id; a
\* model_id or voice_id the request gives is used as it is.  (The model id
\* travels in the request body, the voice id in the endpoint.)
C14_SpeakDefaults ==
  Reached("speak")
  => LET o == Options(call)
         f == Fetches(trace)[1]
     IN /\ Len(Fetches(trace)) = 1
        /\ f.body.model_id = IF "model_id" \in DOMAIN o THEN o.model_id
                             ELSE "eleven_monolingual_v1"
        /\ f.url = getTextToSpeechApiUrl(IF "voice_id" \in DOMAIN o THEN o.voice_id
                                         ELSE "21m00Tcm4TlvDq8ikWAM")
        /\ o = [text |-> "hello"]
             => /\ f.url = getTextToSpeechApiUrl("21m00Tcm4TlvDq8ikWAM")
                /\ f.body = [text |-> "hello", model_id |-> "eleven_monolingual_v1"]
        /\ ("voice_id" \in DOMAIN o /\ o.voice_id = "voice2")
             => f.url = getTextToSpeechApiUrl("voice2")

\* a speak call that gives a voice and no model
C14_Witness ==
  /\ Reached("speak") /\ call.entry = "speak"
  /\ "voice_id" \in DOMAIN call.body /\ "model_id" \notin DOMAIN call.body
  /\ Fetches(trace)[1].body.model_id = "eleven_monolingual_v1"
  /\ Fetches(trace)[1].url = getTextToSpeechApiUrl("voice2")

\* C15: a speak call that succeeds resolves to an object with the property
\* audioUrl holding the URL of the generated audio.
C15_SpeakResolvesAudioUrl ==
  [][ \A r \in Responses :
        (FetchResponds(r) /\ r.ok /\ Awaiting(trace) = "speak")
        => /\ outcome'.kind = "result"
           /\ "audioUrl" \in DOMAIN Resolved(outcome')
           /\ Resolved(outcome').audioUrl = readAsDataURL(r.blob)
    ]_vars

\* what C16 says of the request an embed call sends
EmbedRequest ==
  Reached("embed")
  => LET o == Options(call)
         f == Fetches(trace)[1]
     IN /\ Len(Fetches(trace)) = 1
        /\ f.url = EMBEDDINGS_API_URL
        /\ f.body.model = "text-embedding-ada-002"
        /\ DOMAIN f.body \subseteq {"input", "user", "model"}
        /\ Pick(f.body, {"input", "user"}) = Pick(o, {"input", "user"})

\* C16: an embed call sends the fixed model "text-embedding-ada-002"
\* whatever model the request names, forwards input and user as they are,
\* and on success returns the upstream's data under the one key
\* "embeddings".
C16_EmbedFixedModel ==
  [][ /\ EmbedRequest'
      /\ \A r \in Responses :
           (FetchResponds(r) /\ r.ok /\ Awaiting(trace) = "embed")
           => /\ outcome' = [kind |-> "result",
                             result |-> "{\"embeddings\":" \o r.data \o "}"]
              /\ r.data = "[0.1,0.2]"
                   => outcome'.result = "{\"embeddings\":[0.1,0.2]}"
    ]_vars

\* an embed call naming another model, answered with success
C16_Witness ==
  /\ pc = "done" /\ Reached("embed")
  /\ "model" \in DOMAIN Options(call)
  /\ Options(call).model = "text-embedding-3-large"
  /\ Fetches(trace)[1].body = [input |-> "hi", user |-> "u1",
                               model |-> "text-embedding-ada-002"]
  /\ outcome = [kind |-> "result", result |-> "{\"embeddings\":[0.1,0.2]}"]

\* C17: a transcribe call whose audioUrl is missing or empty fails with the
\* 400 validation error without a transport call; with an audioUrl the
\* fixed model "whisper-1" is sent, and language and prompt are sent
\* exactly when the request gives them.
C17_TranscribeValidation ==
  Reached("transcribe")
  => LET o == Options(call)
     IN IF "audioUrl" \notin DOMAIN o \/ o.audioUrl = ""
        THEN /\ Rejected(400)
             /\ outcome.message = "'audioUrl' is required"
             /\ NoFetch
        ELSE LET f == Fetches(trace)[1]
             IN /\ Len(Fetches(trace)) = 1
                /\ f.url = AUDIO_TRANSCRIPTIONS_API_URL
                /\ f.body.model = "whisper-1"
                /\ Pick(f.body, {"language", "prompt"})
                     = Pick(o, {"language", "prompt"})

\* a dispatched transcribe with an empty audioUrl
C17_Witness ==
  /\ Authorized /\ Reached("transcribe")
  /\ Options(call) = [audioUrl |-> ""]
  /\ outcome.status = 400
  /\ NoFetch

\* a transcribe with a language and no prompt
C17_WitnessSent ==
  /\ Reached("transcribe") /\ pc = "fetch"
  /\ DOMAIN Options(call) = {"audioUrl", "language"}
  /\ DOMAIN Fetches(trace)[1].body = {"file", "filename", "model", "language"}

-----------------------------------------------------------------------------
(* Claims about a whole dispatch *)

\* the transport calls of a handle dispatch, at each of its points
TransportCalls ==
  call.entry = "handle"
  => /\ Len(Fetches(trace)) <= 1
     /\ pc = "isAllowed" => NoFetch
     /\ pc = "fetch" => Len(Fetches(trace)) = 1
     /\ pc = "done"
          => IF "status" \in DOMAIN outcome
             THEN outcome.kind = "error" /\ NoFetch
             ELSE Len(Fetches(trace)) = 1

\* C18: a dispatch through handle calls the transport at most once: once
\* when it reaches an upstream adapter past all validation, never when it
\* is rejected by the authorization, key, $action, allow-list or payload
\* checks; when the awaited call has answered or failed, the dispatch ends
\* with that outcome and calls the transport no more.
C18_NoRetries ==
  [][ /\ TransportCalls'
      /\ (pc = "fetch" /\ pc' # "fetch") => (pc' = "done" /\ trace' = trace)
    ]_vars

\* a dispatched chat failed upstream after its one transport call
C18_Witness ==
  /\ Authorized /\ pc = "done"
  /\ Handlers(trace) = <<EvHandler("chat")>>
  /\ Len(Fetches(trace)) = 1
  /\ outcome = [kind |-> "error", message |-> "invalid api key"]

\* C19: only registerTemplate changes the template mapping, and it changes
\* the entry of the given id alone; handle, prepareChatBody, chat, embed,
\* transcribe and speak, ending well or not, leave the mapping and the
\* other fields of the service as they are; no entry is ever removed.
C19_TemplatesFrame ==
  [][ /\ config' = config
      /\ templates' # templates => \E t \in Templates : RegisterTemplate(t)
      /\ \A t \in Templates :
           RegisterTemplate(t)
           => /\ DOMAIN templates' = DOMAIN templates \cup {t.id}
              /\ \A k \in DOMAIN templates \ {t.id} : templates'[k] = templates[k]
      /\ DOMAIN templates \subseteq DOMAIN templates'
    ]_vars

\* two entries registered one after the other, both kept through a
\* dispatch that failed
C19_Witness ==
  /\ call.entry = "handle" /\ pc = "done" /\ outcome.kind = "error"
  /\ DOMAIN templates = {"", "t1"}
  /\ "model" \notin DOMAIN templates[""]
  /\ "model" \in DOMAIN templates["t1"]

\* C20: handle asks isAllowed once, first, and then tests the key, the
\* presence of $action, the allow-list and the handler in this order; the
\* error is that of the first test that fails.
C20_CheckOrder ==
  /\ call.entry = "handle"
       => /\ trace[1] = EvIsAllowed
          /\ Len(SelectSeq(trace, LAMBDA e : e.ev = "isAllowed")) = 1
  /\ Answered
       => IF ~trace[2].allowed
          THEN Rejected(405) /\ outcome.message = "Request not allowed"
          ELSE IF openaiApiKey = ""
          THEN Rejected(400) /\ outcome.message = "OpenAI API key is required."
          ELSE IF ~HasAction
          THEN /\ Rejected(400)
               /\ outcome.message = "handle expects a key $action in the body"
          ELSE IF ~Listed(call.body["$action"])
                    \/ call.body["$action"] \notin HandlerNames
          THEN /\ Rejected(400) /\ NoHandler
               /\ outcome.message
                    = "Action \"" \o call.body["$action"] \o "\" is not supported"
          ELSE Handlers(trace) = <<EvHandler(call.body["$action"])>>

\* a vetoed request, with no key configured and no $action, gets 405
C20_Witness ==
  /\ Vetoed /\ pc = "done"
  /\ openaiApiKey = "" /\ ~HasAction
  /\ outcome.status = 405

-----------------------------------------------------------------------------
(* Claims about what of a request reaches the prepared chat body *)

\* the request fields prepareChatBody reads
ChatFields == {"template", "messages", "inputs", "stream", "user"}

\* the request that carries nothing but the template id of b and one message
BareRequest(b) ==
  Spread(Pick(b, {"template"}),
         [messages |-> <<[role |-> "user", content |-> "Hello"]>>])

\* C21: the generation parameters of a prepared chat body depend only on the
\* defaults and the template the request's id resolves to: whenever a step
\* prepares a body, its generation parameters are those the bare request
\* with the same template id gets against the same registry (so any two
\* requests with the same id get identical ones), whatever model,
\* temperature, max_tokens or other fields the request carries; the
\* prepared body has no property besides messages,
\* stream, user and the generation parameters, its stream and user are the
\* request's, and it is the body prepared from the request's template,
\* messages, inputs, stream and user alone.
C21_GenerationParamsFromTemplateOnly ==
  [][ (Prepares /\ ~Threw(outcome'))
      => LET b == ChatOptions(call')
             prepared == PreparedBody(call', trace', outcome')
             bare == prepareChatBody(templates, BareRequest(b))
         IN /\ ~bare.threw
            /\ Pick(bare.value, GenerationParams) = Pick(prepared, GenerationParams)
            /\ DOMAIN prepared
                  \subseteq {"messages", "stream", "user"} \cup GenerationParams
            /\ Pick(prepared, {"stream", "user"}) = Pick(b, {"stream", "user"})
            /\ ~prepareChatBody(templates, Pick(b, ChatFields)).threw
            /\ prepareChatBody(templates, Pick(b, ChatFields)).value = prepared
    ]_vars

\* a request naming its own model, temperature, max_tokens and n was prepared
\* against template t1 registered with gpt-4: the body has the template's
\* model, the default temperature and max_tokens, the template's n and the
\* request's user
C21_Witness ==
  /\ pc = "fetch" /\ call.entry = "handle"
  /\ Awaiting(trace) = "chat"
  /\ "template" \in DOMAIN call.body /\ call.body.template = "t1"
  /\ "model" \in DOMAIN call.body /\ call.body.model = "gpt-4-32k"
  /\ call.body.temperature = 20 /\ call.body.n = 9
  /\ LET prepared == Fetches(trace)[1].body
     IN /\ prepared.model = "gpt-4"
        /\ prepared.temperature = 8
        /\ prepared.max_tokens = 200
        /\ prepared.n = 2
        /\ prepared.user = "u9"

-----------------------------------------------------------------------------
(* The voice-chat page.  A run is one call of handleClick that is waiting  *)
(* at an await: the call it waits for and the history of the render whose  *)
(* handler was clicked.  A state update is rendered before the next click  *)
(* or continuation, so a click reads the current status.                   *)

\* most runs of handleClick in flight at once
MaxRuns == 2

\* longest history kept (a turn adds the user's message and the reply)
MaxHistory == 5

\* the statuses in which handleClick takes neither branch
Busy == {"transcribing", "understanding", "thinking", "speaking"}

Run(at) == [at |-> at, history |-> history]

\* the runs without the i-th, which has returned or thrown
Drop(s, i) == SubSeq(s, 1, i - 1) \o SubSeq(s, i + 1, Len(s))

Waits(i, at) == i \in 1..Len(runs) /\ runs[i].at = at

\* the service as constructed with both keys, no call in progress
Constructed ==
  /\ templates = EmptyObj
  /\ openaiApiKey = "sk-1"
  /\ elvenLabsApiKey = "xi-1"
  /\ actions = <<>>
  /\ pc = "idle"
  /\ call = NoCall
  /\ trace = <<>>
  /\ outcome = Pending

VoiceInit == Mounted /\ Constructed

\* a click on the button: handleClick up to its first await
HandleClick ==
  /\ \/ /\ status = "idle"
        /\ Len(runs) < MaxRuns
        /\ audioUrl' = null
        /\ runs' = Append(runs, Run("record"))
        /\ UNCHANGED <<status, history>>
     \/ /\ status = "recording"
        /\ Len(runs) < MaxRuns
        /\ Len(history) + 2 <= MaxHistory
        /\ status' = "transcribing"
        /\ runs' = Append(runs, Run("stopRecording"))
        /\ UNCHANGED <<audioUrl, history>>
     \/ /\ status \in Busy
        /\ UNCHANGED page
  /\ UNCHANGED service

\* await llm.record() settles
RecordSettles(i, ok) ==
  /\ Waits(i, "record")
  /\ status' = IF ok THEN "recording" ELSE status
  /\ runs' = Drop(runs, i)
  /\ UNCHANGED <<audioUrl, history, service>>

\* await llm.stopRecording() settles
StopRecordingSettles(i, ok) ==
  /\ Waits(i, "stopRecording")
  /\ runs' = IF ok THEN [runs EXCEPT ![i].at = "transcribe"] ELSE Drop(runs, i)
  /\ UNCHANGED <<status, audioUrl, history, service>>

\* await llm.transcribe(...) settles
TranscribeSettles(i, ok) ==
  /\ Waits(i, "transcribe")
  /\ IF ok
     THEN /\ status' = "understanding"
          /\ history' = Append(runs[i].history, [role |-> "user", content |-> "text"])
          /\ runs' = [runs EXCEPT ![i].at = "chat"]
     ELSE /\ runs' = Drop(runs, i)
          /\ UNCHANGED <<status, history>>
  /\ UNCHANGED <<audioUrl, service>>

\* await llm.chat(...) settles
ChatSettles(i, ok) ==
  /\ Waits(i, "chat")
  /\ IF ok
     THEN /\ history' = Append(runs[i].history, [role |-> "user", content |-> "text"])
                          \o <<[role |-> "assistant", content |-> "reply"]>>
          /\ status' = "thinking"
          /\ runs' = [runs EXCEPT ![i].at = "speak"]
     ELSE /\ runs' = Drop(runs, i)
          /\ UNCHANGED <<status, history>>
  /\ UNCHANGED <<audioUrl, service>>

\* await llm.speak(...) settles
SpeakSettles(i, ok) ==
  /\ Waits(i, "speak")
  /\ IF ok
     THEN /\ status' = "speaking"
          /\ audioUrl' = "data:audio/mpeg;base64,SUQz"
          /\ runs' = [runs EXCEPT ![i].at = "play"]
     ELSE /\ runs' = Drop(runs, i)
          /\ UNCHANGED <<status, audioUrl>>
  /\ UNCHANGED <<history, service>>

\* await audio.play() settles
PlaySettles(i, ok) ==
  /\ Waits(i, "play")
  /\ status' = IF ok THEN "idle" ELSE status
  /\ runs' = Drop(runs, i)
  /\ UNCHANGED <<audioUrl, history, service>>

\* the promise the i-th run awaits is fulfilled (ok) or rejected
Settles(i, ok) ==
  \/ RecordSettles(i, ok)
  \/ StopRecordingSettles(i, ok)
  \/ TranscribeSettles(i, ok)
  \/ ChatSettles(i, ok)
  \/ SpeakSettles(i, ok)
  \/ PlaySettles(i, ok)

VoiceNext ==
  \/ HandleClick
  \/ \E i \in 1..MaxRuns, ok \in BOOLEAN : Settles(i, ok)

VoiceSpec == VoiceInit /\ [][VoiceNext]_vars

\* every awaited promise settles, one way or the other
VoiceFairSpec ==
  VoiceSpec /\ \A i \in 1..MaxRuns : WF_vars(\E ok \in BOOLEAN : Settles(i, ok))

-----------------------------------------------------------------------------
(* Claims about the voice-chat page *)

\* C22: every turn started by a click while status is "recording" brings
\* status back to "idle" in the end, whether the transcribe, chat, speak and
\* audio-play steps succeed or one of them fails: whenever status is
\* "transcribing", it is eventually "idle" again.
C22_TurnReturnsToIdle == (status = "transcribing") ~> (status = "idle")

\* C23: llm.record is started at most once per turn, and a click during the
\* rest of the turn does nothing: a click that arrives while a run of
\* handleClick still awaits llm.record, or while status is transcribing,
\* understanding, thinking or speaking, changes no state of the page and
\* starts no run.
C23_ClickDuringTurnIgnored ==
  [][ (HandleClick /\ ((\E i \in 1..Len(runs) : runs[i].at = "record")
                         \/ status \in Busy))
      => UNCHANGED page
    ]_vars

====
